---- MODULE Spec2Model ----
(***************************************************************************)
(* A model of the price-catalog ingestion and search core of main.py:      *)
(* the SQLite access layer (createTable, insert_into_table,                *)
(* get_table_data), the "add supplier" dialog (on_file_input,              *)
(* on_add_table), the ingestion handler on_update_price and the full-text  *)
(* search handler on_search.                                               *)
(*                                                                         *)
(* The source's Cyrillic identifiers are transliterated, because the       *)
(* module text has to be ASCII.  The database engine is modelled with its  *)
(* default configuration: a double-quoted identifier that names no column  *)
(* of the statement's table is read as a string literal.                   *)
(***************************************************************************)
EXTENDS Integers, Sequences, FiniteSets, TLC

\* ---------------------------------------------------------------- names
\* Table and column names of the source, transliterated.
PRICE == "PRAIS"
REGISTRY == "SPISOK POSTAVSHCHIKOV"
INDEX == "Indeks"
NAME == "Nazvanie"
PATH == "Put"
SUPPLIER == "Postavshchik"
ARTICLE == "Artikul"
MAP_DB == "NAZVANIE V BD"
MAP_SRC == "NAZVANIE U POSTAVSHCHIKA"
UNASSIGNED == "NE NAZNACHENO"

\* SQL NULL.
NULL == "<NULL>"

\* -------------------------------------------------------------- bounds
\* Supplier names the user may type and spreadsheet files on disk.
Names == {"acme", "bolt"}
Paths == {"C:/acme.xlsx", "C:/bolt.xlsx"}

\* The catalog is not allowed to grow beyond this many rows.
MaxCatalog == 3
\* How often the file button of one dialog may be pressed.
MaxSelect == 2
\* Length of the token list of a search.
MaxTokens == 2
\* Batch sizes and row counts of a direct call of insert_into_table.
MaxBatch == 3
MaxValues == 3

\* How many (column, request) pairs a relevancy search is given.
MaxPairs == 2
\* How many fields the user may add in the create dialog.
MaxColumns == 2

\* Default batch size of insert_into_table.
DefaultBatchSize == 100
\* Row limits of the grid refresh after an update and after opening.
UpdateLimit == 50
OpenLimit == 500

Min(a, b) == IF a < b THEN a ELSE b

Range(s) == {s[i] : i \in 1..Len(s)}

\* The position of x in the sequence s (x occurs in s).
IndexOf(s, x) == CHOOSE i \in 1..Len(s) : s[i] = x

\* ------------------------------------------------------------ database
\* A table: its ordered columns, its constraints and its rows in rowid
\* order.  A row is a function from the table's columns to values.

\* The column dictionary of the supplier registry (createPrice).
prices ==
  [columns |-> <<INDEX, NAME, PATH>>, unique |-> {INDEX, NAME, PATH},
   notnull |-> {NAME, PATH}, autoinc |-> {INDEX}]

\* The column dictionary of a supplier's column map (on_add_table).
sql_table ==
  [columns |-> <<MAP_DB, MAP_SRC>>, unique |-> {MAP_DB},
   notnull |-> {}, autoinc |-> {}]

\* The full-text catalog declared with the given columns (createPrice):
\* an FTS5 table has no constraints.
Fts5Table(insert) ==
  [columns |-> insert, unique |-> {}, notnull |-> {}, autoinc |-> {},
   rows |-> <<>>]

\* createTable as it would be with CREATE TABLE IF NOT EXISTS: an existing
\* table is no error.
createTable_IfNotExists(db, table_name, columns) ==
  [ok |-> TRUE,
   db |-> [t \in DOMAIN db \cup {table_name} |->
             IF t \in DOMAIN db THEN db[t]
             ELSE [columns |-> columns.columns, unique |-> columns.unique,
                   notnull |-> columns.notnull, autoinc |-> columns.autoinc,
                   rows |-> <<>>]]]

\* createTable: CREATE TABLE fails when a table of that name exists; the
\* error is reported and False returned.
createTable(db, table_name, columns) ==
  IF table_name \in DOMAIN db
  THEN [ok |-> FALSE, db |-> db]
  ELSE [ok |-> TRUE,
        db |-> [t \in DOMAIN db \cup {table_name} |->
                  IF t = table_name
                  THEN [columns |-> columns.columns, unique |-> columns.unique,
                        notnull |-> columns.notnull, autoinc |-> columns.autoinc,
                        rows |-> <<>>]
                  ELSE db[t]]]

\* The row one INSERT statement stores as the table's n-th row: the named
\* columns take the bound values, an omitted autoincrement key takes the
\* next rowid, every other omitted column is NULL.
NewRow(tbl, columns, row, n) ==
  [c \in Range(tbl.columns) |->
     IF c \in Range(columns) THEN row[IndexOf(columns, c)]
     ELSE IF c \in tbl.autoinc THEN n
     ELSE NULL]

\* Whether the INSERT statement of the i-th row of a batch raises
\* sqlite3.Error: a wrong number of bindings, an unknown or repeated
\* column, a NOT NULL violation, or a UNIQUE violation against a row of
\* the table or an earlier row of the batch (an auto-assigned key is
\* fresh, and NULLs never collide).
InsertFails(tbl, columns, batch, i) ==
  \/ Len(batch[i]) # Len(columns)
  \/ ~(Range(columns) \subseteq Range(tbl.columns))
  \/ Cardinality(Range(columns)) # Len(columns)
  \/ LET new == NewRow(tbl, columns, batch[i], Len(tbl.rows) + i)
     IN \/ \E c \in tbl.notnull : new[c] = NULL
        \/ \E c \in tbl.unique \cap Range(columns) :
             /\ new[c] # NULL
             /\ \/ \E r \in 1..Len(tbl.rows) : tbl.rows[r][c] = new[c]
                \/ \E j \in 1..(i - 1) :
                     /\ Len(batch[j]) = Len(columns)
                     /\ batch[j][IndexOf(columns, c)] = new[c]

\* cursor.executemany(sql, batch): the statements run in order inside the
\* open transaction; the first one that fails raises (the rows stored
\* before it are undone by the caller's rollback).
executemany(tbl, columns, batch) ==
  IF \E i \in 1..Len(batch) : InsertFails(tbl, columns, batch, i)
  THEN [ok |-> FALSE, tbl |-> tbl]
  ELSE [ok |-> TRUE,
        tbl |-> [tbl EXCEPT !.rows =
                   @ \o [i \in 1..Len(batch) |->
                           NewRow(tbl, columns, batch[i], Len(tbl.rows) + i)]]]

\* The batch loop of insert_into_table from offset i on.  committed is the
\* table as of the last commit, fail the number of the batch in which the
\* storage engine raises for a reason of its own (0: in none).  An error
\* rolls back to the last commit and returns 0.
RECURSIVE InsertBatches(_, _, _, _, _, _, _)
InsertBatches(committed, columns, values, batch_size, i, total_inserted, fail) ==
  IF i >= Len(values)
  THEN [tbl |-> committed, ret |-> total_inserted, error |-> FALSE]
  ELSE LET batch == SubSeq(values, i + 1, Min(i + batch_size, Len(values)))
           r == executemany(committed, columns, batch)
       IN IF fail = (i \div batch_size) + 1 \/ ~r.ok
          THEN [tbl |-> committed, ret |-> 0, error |-> TRUE]
          ELSE InsertBatches(r.tbl, columns, values, batch_size,
                             i + batch_size, total_inserted + Len(batch), fail)

\* The warning boxes of insert_into_table.
NoValues == "No values provided to insert"
Mismatch == "Number of columns doesn't match values structure"
DatabaseError == "Database error"

\* insert_into_table as it would be if it cut the column list and the
\* rows to their common length in place of rejecting a mismatch.
insert_into_table_Truncating(db, table_name, columns, values, batch_size, fail) ==
  IF values = <<>> THEN [db |-> db, ret |-> 0, warned |-> NoValues]
  ELSE IF table_name \notin DOMAIN db
  THEN [db |-> db, ret |-> 0, warned |-> DatabaseError]
  ELSE LET n == Min(Len(columns), Len(values[1]))
           cut == [i \in 1..Len(values) |->
                     SubSeq(values[i], 1, Min(n, Len(values[i])))]
           r == InsertBatches(db[table_name], SubSeq(columns, 1, n), cut,
                              batch_size, 0, 0, fail)
       IN [db |-> [db EXCEPT ![table_name] = r.tbl], ret |-> r.ret,
           warned |-> IF r.error THEN DatabaseError ELSE ""]

\* insert_into_table as it would be with one commit after the last batch:
\* an error undoes every batch of the call.
insert_into_table_OneCommit(db, table_name, columns, values, batch_size, fail) ==
  IF values = <<>> THEN [db |-> db, ret |-> 0, warned |-> NoValues]
  ELSE IF Len(columns) # Len(values[1])
  THEN [db |-> db, ret |-> 0, warned |-> Mismatch]
  ELSE IF table_name \notin DOMAIN db
  THEN [db |-> db, ret |-> 0, warned |-> DatabaseError]
  ELSE LET r == InsertBatches(db[table_name], columns, values, batch_size, 0, 0, fail)
       IN IF r.error THEN [db |-> db, ret |-> 0, warned |-> DatabaseError]
          ELSE [db |-> [db EXCEPT ![table_name] = r.tbl], ret |-> r.ret,
                warned |-> ""]

\* insert_into_table: rejects an empty row list and a column list whose
\* length differs from the first row's, else inserts batch by batch.
\* Result: the database, the returned count, the warning shown ("": none).
insert_into_table(db, table_name, columns, values, batch_size, fail) ==
  IF values = <<>> THEN [db |-> db, ret |-> 0, warned |-> NoValues]
  ELSE IF Len(columns) # Len(values[1])
  THEN [db |-> db, ret |-> 0, warned |-> Mismatch]
  ELSE IF table_name \notin DOMAIN db
  THEN [db |-> db, ret |-> 0, warned |-> DatabaseError]
  ELSE LET r == InsertBatches(db[table_name], columns, values, batch_size, 0, 0, fail)
       IN [db |-> [db EXCEPT ![table_name] = r.tbl], ret |-> r.ret,
           warned |-> IF r.error THEN DatabaseError ELSE ""]

\* get_table_data(..., limit=limit): all columns of the first rows of the
\* table; after a database error (no such table) the error is reported
\* and None returned (ok is FALSE).  The LIMIT clause is added "if
\* limit:", so neither for None, the default, nor for 0.
None == -1

get_table_data(db, table_name, limit) ==
  IF table_name \notin DOMAIN db THEN [ok |-> FALSE, rows |-> <<>>]
  ELSE LET rows == db[table_name].rows
       IN [ok |-> TRUE,
           rows |-> IF limit = None \/ limit = 0 THEN rows
                    ELSE SubSeq(rows, 1, Min(limit, Len(rows)))]

\* -------------------------------------------------------- spreadsheets
\* A spreadsheet: its header row and its data rows (functions from the
\* header's columns to cell texts).
SheetColumns == <<"A", "B">>
R1 == [A |-> "a100", B |-> "nut"]
R2 == [A |-> "C:/acme.xlsx", B |-> "b2"]
SheetRows == {<<>>, <<R1>>, <<R2, R1>>}
Sheets == {[columns |-> SheetColumns, rows |-> r] : r \in SheetRows}

\* The canonical column lists a catalog may have been created with: the
\* two fixed fields alone, or with one user-declared field after them.
FieldSets == {<<SUPPLIER, ARTICLE>>, <<SUPPLIER, ARTICLE, NAME>>}

\* The combo-box settings of the dialog that are explored, one entry per
\* catalog field after the first.
Mappings == {<<"B", "A">>, <<UNASSIGNED, "B">>}

\* The spreadsheets are files outside the program: what a handler finds
\* in them when it reads them is an input of the handler (fs, a function
\* from the readable paths to spreadsheets).
VARIABLES
  db,           \* the database file: table name -> table
  dlg,          \* the add-supplier dialog: open, file_input_line, table
  tableWidget,  \* the rows shown in the main window's grid
  last          \* the handler that ran last and how it ended

vars == <<db, dlg, tableWidget, last>>

catalog == db[PRICE].rows
CatalogColumns == db[PRICE].columns

\* The catalog rows of one supplier (partition-key equality), in order.
PartitionRows(rows, s) == SelectSeq(rows, LAMBDA r : r[SUPPLIER] = s)

\* pd.read_excel(path)[excel_columns] followed by row.tolist() per row.
\* It raises (ok is FALSE) when the file cannot be read or a requested
\* column is missing from its header.
ReadExcel(fs, path, excel_columns) ==
  IF path \notin DOMAIN fs THEN [ok |-> FALSE, rows |-> <<>>]
  ELSE IF ~(Range(excel_columns) \subseteq Range(fs[path].columns))
  THEN [ok |-> FALSE, rows |-> <<>>]
  ELSE [ok |-> TRUE,
        rows |-> [i \in 1..Len(fs[path].rows) |->
                    [j \in 1..Len(excel_columns) |->
                       fs[path].rows[i][excel_columns[j]]]]]

\* The WHERE clause of the DELETE statement of on_update_price,
\* "Nazvanie" = '<path>': the catalog's column of that name when it has
\* one, else the string literal 'Nazvanie'.
DeleteMatches(tbl, row, path) ==
  IF NAME \in Range(tbl.columns) THEN row[NAME] = path ELSE NAME = path

DeleteFromPrice(tbl, path) ==
  [tbl EXCEPT !.rows = SelectSeq(@, LAMBDA r : ~DeleteMatches(tbl, r, path))]

\* The body of on_update_price's loop for one [name, path] entry.
\* raised: an exception left the handler before or instead of the insert.
\* unclosed: the connection of the "with" block around the DELETE, which
\* is not closed; get_table_data and insert_into_table close theirs.
UpdateOne(d, fs, table, fail) ==
  LET got == get_table_data(d, table[1], 0)
      columns == got.rows
  IN IF ~got.ok THEN [db |-> d, raised |-> TRUE, unclosed |-> 0]
     ELSE
       LET sql_columns == <<SUPPLIER>> \o [i \in 1..Len(columns) |-> columns[i][MAP_DB]]
           excel_columns == [i \in 1..Len(columns) |-> columns[i][MAP_SRC]]
           df == ReadExcel(fs, table[2], excel_columns)
       IN IF ~df.ok THEN [db |-> d, raised |-> TRUE, unclosed |-> 0]
          ELSE
            LET values == [i \in 1..Len(df.rows) |-> <<table[1]>> \o df.rows[i]]
                deleted == [d EXCEPT ![PRICE] = DeleteFromPrice(@, table[2])]
                r == insert_into_table(deleted, PRICE, sql_columns, values,
                                       DefaultBatchSize, fail)
            IN [db |-> r.db, raised |-> FALSE, unclosed |-> 1]

\* The loop of on_update_price over tables[k..]; fail[k] is the storage
\* failure met by the k-th entry's insert.
RECURSIVE UpdateLoop(_, _, _, _, _)
UpdateLoop(d, fs, tables, k, fail) ==
  IF k > Len(tables) THEN [db |-> d, raised |-> FALSE, unclosed |-> 0]
  ELSE LET u == UpdateOne(d, fs, tables[k], fail[k])
       IN IF u.raised THEN u
          ELSE [UpdateLoop(u.db, fs, tables, k + 1, fail)
                  EXCEPT !.unclosed = @ + u.unclosed]

\* What on_update_price leaves in the grid: the first rows of the catalog
\* when the loop ended, the old contents when an exception left it.
RefreshedGrid(u, shown) ==
  IF u.raised THEN shown ELSE get_table_data(u.db, PRICE, UpdateLimit).rows

\* The [name, path] list on_update_price builds from the registry when it
\* is called without one.
RegistryTables(d) ==
  [i \in 1..Len(d[REGISTRY].rows) |->
     <<d[REGISTRY].rows[i][NAME], d[REGISTRY].rows[i][PATH]>>]

\* The number of rows an update of these entries may add to the catalog.
RECURSIVE RowsOf(_, _)
RowsOf(fs, tables) ==
  IF tables = <<>> THEN 0
  ELSE (IF Head(tables)[2] \in DOMAIN fs THEN Len(fs[Head(tables)[2]].rows) ELSE 0)
       + RowsOf(fs, Tail(tables))

FailChoices(n) == [1..n -> 0..1]

\* ---------------------------------------------------- full-text search
\* The characters of the words the model uses.
Chars(w) ==
  CASE w = "a100" -> <<"a", "1", "0", "0">>
    [] w = "a1" -> <<"a", "1">>
    [] w = "b2" -> <<"b", "2">>
    [] w = "nut" -> <<"n", "u", "t">>
    [] w = "acme" -> <<"a", "c", "m", "e">>
    [] w = "bolt" -> <<"b", "o", "l", "t">>
    [] w = "c" -> <<"c">>
    [] w = "xlsx" -> <<"x", "l", "s", "x">>
    [] w = "zz" -> <<"z", "z">>
    [] w = "Nut" -> <<"N", "u", "t">>
    [] w = "Nu" -> <<"N", "u">>
    [] w = "nat" -> <<"n", "a", "t">>
    [] w = "n_t" -> <<"n", "_", "t">>
    [] w = "n%t" -> <<"n", "%", "t">>
    [] w = " " -> <<" ">>
    [] w = "" -> <<>>
    [] OTHER -> <<w>>

\* The words the unicode61 tokenizer of FTS5 finds in a cell: runs of
\* letters and digits, in lower case; none in a NULL.
Words(v) ==
  CASE v = NULL -> <<>>
    [] v = "C:/acme.xlsx" -> <<"c", "acme", "xlsx">>
    [] OTHER -> <<v>>

IsPrefix(p, w) ==
  /\ Len(Chars(p)) <= Len(Chars(w))
  /\ SubSeq(Chars(w), 1, Len(Chars(p))) = Chars(p)

\* The tokens a search text may hold after text().split().
Tokens == {"a1", "A1", "zz", "OR"}

\* The unicode61 tokenizer folds the letters of a query token to lower
\* case, as it does the words of a cell.
Fold(t) == IF t = "A1" THEN "a1" ELSE t
Fts5Keywords == {"AND", "OR", "NOT"}

\* Whether the MATCH text join(requests, "* OR ") + "*" is refused by the
\* FTS5 query parser: with no request the text is "*" alone (an unknown
\* special query); a request that is an operator keyword stands where a
\* phrase has to.
MatchFails(requests) ==
  \/ requests = <<>>
  \/ \E i \in 1..Len(requests) : requests[i] \in Fts5Keywords

\* MATCH with whole-word terms t1 OR t2 OR ... in place of prefix terms.
MatchesRow_WholeWord(tbl, row, requests) ==
  \E i \in 1..Len(requests) : \E c \in Range(tbl.columns) :
    \E k \in 1..Len(Words(row[c])) : Fold(requests[i]) = Words(row[c])[k]

\* A row satisfies t1* OR t2* OR ...: some token is a prefix of some word
\* of some column.
MatchesRow(tbl, row, requests) ==
  \E i \in 1..Len(requests) : \E c \in Range(tbl.columns) :
    \E k \in 1..Len(Words(row[c])) :
      IsPrefix(Fold(requests[i]), Words(row[c])[k])

\* The rows the SELECT ... MATCH of on_search yields (their order by rank
\* is not modelled: they are kept in catalog order).
SearchRows(tbl, requests) ==
  SelectSeq(tbl.rows, LAMBDA r : MatchesRow(tbl, r, requests))

\* ------------------------------------------------------------- actions
Closed == [open |-> FALSE, file_input_line |-> "", table |-> <<>>]

\* What was seen of the call that ran last: which handler or function it
\* was; how it ended: "done", "rejected" (createTable's warning box, then
\* an early return), "raised" (an exception left the handler), "error"
\* (on_search's warning box), or the warning of insert_into_table; the
\* count it returned (0 for the handlers, which return nothing) or the
\* rows it returned; for a direct call of a function, the arguments it
\* was called with; and unclosed, the number of connections the call
\* opened with sqlite3.connect and had not closed with close() when it
\* returned or raised (a "with" block over a connection commits or rolls
\* back, it does not close).
NoCall == [table_name |-> "", columns |-> <<>>, values |-> <<>>,
           batch_size |-> 0, fail |-> 0]
Last(op, end) ==
  [op |-> op, end |-> end, ret |-> 0, rows |-> <<>>, call |-> NoCall,
   unclosed |-> 0]

\* The dialog's on_file_input after the user picked file: the path is
\* shown and one grid row per catalog field after the first is appended,
\* each with a combo box of the sentinel and the spreadsheet's columns.
FileChosen(d, file) ==
  [d EXCEPT !.file_input_line = file,
            !.table = @ \o [i \in 1..(Len(CatalogColumns) - 1) |->
                              [column |-> CatalogColumns[i + 1],
                               selectables |-> <<UNASSIGNED>> \o SheetColumns]]]

\* Menu entry "add supplier": a new dialog whose setupUi runs
\* on_file_input once; sel is the picked file, or "" when the user
\* cancels the file chooser.
Ui_OpenerSearchPrice_on_add_table(sel) ==
  /\ ~dlg.open
  /\ dlg' = IF sel = "" THEN [Closed EXCEPT !.open = TRUE]
            ELSE FileChosen([Closed EXCEPT !.open = TRUE], sel)
  /\ last' = Last("dialog", "done")
  /\ UNCHANGED <<db, tableWidget>>

\* The dialog's file button, the user picking sel.
on_file_input(sel) ==
  /\ dlg.open
  /\ Len(dlg.table) + (Len(CatalogColumns) - 1) <= MaxSelect * (Len(CatalogColumns) - 1)
  /\ dlg' = FileChosen(dlg, sel)
  /\ last' = Last("dialog", "done")
  /\ UNCHANGED <<db, tableWidget>>

\* The dialog's Cancel button.
close ==
  /\ dlg.open
  /\ dlg' = Closed
  /\ last' = Last("dialog", "done")
  /\ UNCHANGED <<db, tableWidget>>

\* The combo-box settings of the dialog's grid rows: a setting of
\* Mappings for the fields, repeated for every further block of rows.
Choices(d) ==
  LET k == Len(CatalogColumns) - 1
  IN {c \in {[i \in 1..Len(d.table) |-> m[((i - 1) % k) + 1]] : m \in Mappings} :
        \A i \in 1..Len(d.table) : c[i] \in Range(d.table[i].selectables)}

\* The dialog's Ok button with the name line holding name and the combo
\* boxes showing choice.  Result: database, grid, dialog, and how the
\* handler ended ("rejected": createTable failed; "raised": an exception
\* left on_update_price, so the dialog stays open), and the connections
\* left unclosed: the one of a createTable that failed (its close() is
\* skipped by the exception), those of on_update_price.
AddTable(name, choice, fs, fail) ==
  LET path == dlg.file_input_line
      c == createTable(db, name, sql_table)
  IN IF ~c.ok
     THEN [db |-> db, grid |-> tableWidget, dlg |-> dlg, end |-> "rejected",
           unclosed |-> 1]
     ELSE
       LET r1 == insert_into_table(c.db, REGISTRY, <<NAME, PATH>>,
                                   << <<name, path>> >>, DefaultBatchSize, 0)
           insert == [i \in 1..Len(dlg.table) |-> <<dlg.table[i].column, choice[i]>>]
           r2 == insert_into_table(r1.db, name, sql_table.columns, insert,
                                   DefaultBatchSize, 0)
           u == UpdateLoop(r2.db, fs, << <<name, path>> >>, 1, <<fail>>)
       IN [db |-> u.db, grid |-> RefreshedGrid(u, tableWidget),
           dlg |-> IF u.raised THEN dlg ELSE Closed,
           end |-> IF u.raised THEN "raised" ELSE "done",
           unclosed |-> u.unclosed]

Ui_Add_table_dialog_on_add_table(name, choice, fs, fail) ==
  /\ dlg.open
  /\ LET a == AddTable(name, choice, fs, fail)
     IN /\ db' = a.db
        /\ tableWidget' = a.grid
        /\ dlg' = a.dlg
        /\ last' = [Last("add", a.end) EXCEPT !.unclosed = a.unclosed]

\* Menu entry "update": on_update_price() over every registered supplier.
on_update_price(fs, fail) ==
  /\ LET u == UpdateLoop(db, fs, RegistryTables(db), 1, fail)
     IN /\ db' = u.db
        /\ tableWidget' = RefreshedGrid(u, tableWidget)
        /\ last' = [Last("update", IF u.raised THEN "raised" ELSE "done")
                      EXCEPT !.unclosed = u.unclosed]
  /\ UNCHANGED dlg

\* The search button with the search line holding the given tokens.  The
\* query runs in a "with" block over its connection, which is not closed.
on_search(requests) ==
  /\ tableWidget' = IF MatchFails(requests) THEN tableWidget
                    ELSE SearchRows(db[PRICE], requests)
  /\ last' = [Last("search", IF MatchFails(requests) THEN "error" ELSE "done")
                EXCEPT !.unclosed = 1]
  /\ UNCHANGED <<db, dlg>>

\* A direct call insert_into_table(parent, path, table_name, columns,
\* values, batch_size) against the open database.
InsertMany(table_name, columns, values, batch_size, fail) ==
  /\ LET r == insert_into_table(db, table_name, columns, values, batch_size, fail)
     IN /\ db' = r.db
        /\ last' = [op |-> "insert", end |-> IF r.warned = "" THEN "done" ELSE r.warned,
                    ret |-> r.ret, rows |-> <<>>,
                    call |-> [table_name |-> table_name, columns |-> columns,
                              values |-> values, batch_size |-> batch_size,
                              fail |-> fail],
                    unclosed |-> 0]
  /\ UNCHANGED <<dlg, tableWidget>>

TokenLists == UNION {[1..n -> Tokens] : n \in 0..MaxTokens}

\* The spreadsheets a handler may find at the paths it reads.
Files(paths) == [paths \cap Paths -> Sheets]

RegisteredPaths == {db[REGISTRY].rows[i][PATH] : i \in 1..Len(db[REGISTRY].rows)}

\* The handler would not take the catalog beyond max rows.
Bounded(max, fs, tables) == Len(catalog) + RowsOf(fs, tables) <= max

\* get_table_columns: PRAGMA table_info lists the columns of the table in
\* their order, and nothing for a table that does not exist.
get_table_columns(d, table_name) ==
  IF table_name \in DOMAIN d THEN d[table_name].columns ELSE <<>>

\* What the FTS5 module makes of one entry of the column list of CREATE
\* VIRTUAL TABLE, the entry being the text of a dialog row as it is: a
\* bareword is a column of that name, a bareword followed by UNINDEXED a
\* column of the bareword's name, any other second word an unrecognized
\* column option.
Fts5Column(text) ==
  CASE text = "Nazvanie stolbtsa" -> [ok |-> FALSE, name |-> ""]
    [] text = "Tsena UNINDEXED" -> [ok |-> TRUE, name |-> "Tsena"]
    [] OTHER -> [ok |-> TRUE, name |-> text]

\* CREATE VIRTUAL TABLE "PRAIS" USING FTS5(join(insert, ",")) on the
\* database d: it fails when the table exists, an entry is refused or
\* two columns get the same name.  The statement runs in a "with" block
\* over its connection, which is not closed.
CreateVirtualTable(d, insert) ==
  LET cols == [i \in 1..Len(insert) |-> Fts5Column(insert[i])]
      names == [i \in 1..Len(insert) |-> cols[i].name]
  IN IF \/ PRICE \in DOMAIN d
        \/ \E i \in 1..Len(insert) : ~cols[i].ok
        \/ \E i, j \in 1..Len(insert) : i # j /\ names[i] = names[j]
     THEN [ok |-> FALSE, db |-> d, unclosed |-> 1]
     ELSE [ok |-> TRUE, unclosed |-> 1,
           db |-> [t \in DOMAIN d \cup {PRICE} |->
                     IF t = PRICE THEN Fts5Table(names) ELSE d[t]]]

\* Ui_Create_db.createPrice on the database d with the dialog rows
\* insert: the registry, then the catalog; False after the first failure.
Ui_Create_db_createPrice(d, insert) ==
  LET c == createTable(d, REGISTRY, prices)
  IN IF ~c.ok THEN [ok |-> FALSE, db |-> d, unclosed |-> 1]
     ELSE CreateVirtualTable(c.db, insert)

\* createPrice: the database create_db makes, the registry and the
\* catalog declared with the columns insert.
createPrice(insert) ==
  [t \in {REGISTRY, PRICE} |->
     IF t = REGISTRY THEN createTable(<<>>, REGISTRY, prices).db[REGISTRY]
     ELSE Fts5Table(insert)]

\* A database file that does not exist (sqlite3.connect makes it, with
\* no table in it).
NoFile == <<>>

\* setupDB on the file with the content d: no name or no folder is
\* refused, and so is a file that exists where the test of line 379
\* (folder + "\\" + name) sees it, i.e. on Windows; elsewhere the test
\* looks at another path and the file is opened as it is.
setupDB_Overwrite(d, db_name, file_path, windows) ==
  IF db_name = "" \/ file_path = "" THEN [ok |-> FALSE, db |-> d]
  ELSE [ok |-> TRUE, db |-> NoFile]

setupDB(d, db_name, file_path, windows) ==
  IF db_name = "" \/ file_path = "" THEN [ok |-> FALSE, db |-> d]
  ELSE IF windows /\ d # NoFile THEN [ok |-> FALSE, db |-> d]
  ELSE [ok |-> TRUE, db |-> d]

\* The window after create_db / on_open_db on a fresh database whose
\* catalog was declared with the columns insert: registry and catalog
\* exist and are empty, the grid shows the empty catalog.
Opened(insert) ==
  /\ db = createPrice(insert)
  /\ dlg = Closed
  /\ tableWidget = <<>>
  /\ last = Last("open_db", "done")

Init == \E insert \in FieldSets : Opened(insert)

Next ==
  \/ \E sel \in Paths : Ui_OpenerSearchPrice_on_add_table(sel)
  \/ \E sel \in Paths : on_file_input(sel)
  \/ close
  \/ \E name \in Names : \E choice \in Choices(dlg) :
       \E fs \in Files({dlg.file_input_line}) : \E fail \in 0..1 :
         /\ Bounded(MaxCatalog, fs, << <<name, dlg.file_input_line>> >>)
         /\ Ui_Add_table_dialog_on_add_table(name, choice, fs, fail)
  \/ \E fs \in Files(RegisteredPaths) :
       \E fail \in FailChoices(Len(db[REGISTRY].rows)) :
         /\ Bounded(MaxCatalog, fs, RegistryTables(db))
         /\ on_update_price(fs, fail)

Spec == Init /\ [][Next]_vars

\* Ingestion of spreadsheets longer than one insert batch: one catalog
\* layout, one combo setting, spreadsheets of one row more than a batch
\* holds, and a storage failure in the first or the second batch of an
\* insert.
BigRows == [i \in 1..(DefaultBatchSize + 1) |-> IF i = 1 THEN R2 ELSE R1]
BatchSheets == {[columns |-> SheetColumns, rows |-> BigRows]}
BatchFiles(paths) == [paths \cap Paths -> BatchSheets]
BatchChoices == {<<"B">>}
BigCatalog == 2 * DefaultBatchSize + MaxCatalog

InitBatch == Opened(<<SUPPLIER, ARTICLE>>)

NextBatch ==
  \/ \E sel \in Paths : Ui_OpenerSearchPrice_on_add_table(sel)
  \/ \E name \in Names : \E choice \in BatchChoices :
       \E fs \in BatchFiles({dlg.file_input_line}) : \E fail \in 0..2 :
         /\ Bounded(BigCatalog, fs, << <<name, dlg.file_input_line>> >>)
         /\ Ui_Add_table_dialog_on_add_table(name, choice, fs, fail)
  \/ \E fs \in BatchFiles(RegisteredPaths) :
       \E fail \in [1..Len(db[REGISTRY].rows) -> 0..2] :
         /\ Bounded(BigCatalog, fs, RegistryTables(db))
         /\ on_update_price(fs, fail)

SpecBatch == InitBatch /\ [][NextBatch]_vars

\* Direct calls of insert_into_table: one call per run, on a database
\* whose catalog earlier inserts have filled with up to MaxCatalog rows;
\* rows of one or two values, any batch size up to MaxBatch, and a
\* storage failure in any batch.
InsertRows == {<<"acme", "b2">>, <<"bolt", "a100">>, <<"acme">>}
InsertValues == UNION {[1..n -> InsertRows] : n \in 0..MaxValues}
InsertColumns(table_name) ==
  IF table_name = PRICE THEN {<<SUPPLIER, ARTICLE>>, <<SUPPLIER>>}
  ELSE {<<NAME, PATH>>}
Seeds == {[i \in 1..n |-> <<"bolt", "nut">>] : n \in 0..MaxCatalog}

InitInsert ==
  \E seed \in Seeds :
    /\ db = insert_into_table(createPrice(<<SUPPLIER, ARTICLE>>), PRICE,
                              <<SUPPLIER, ARTICLE>>, seed, DefaultBatchSize, 0).db
    /\ dlg = Closed
    /\ tableWidget = <<>>
    /\ last = Last("open_db", "done")

NextInsert ==
  \E table_name \in {PRICE, REGISTRY} : \E columns \in InsertColumns(table_name) :
    \E values \in InsertValues : \E batch_size \in 1..MaxBatch :
      \E fail \in 0..MaxValues :
        /\ last.op # "insert"
        /\ InsertMany(table_name, columns, values, batch_size, fail)

SpecInsert == InitInsert /\ [][NextInsert]_vars

\* Ingestion and search: one catalog layout, one combo setting, no storage
\* failures, and searches of up to MaxTokens tokens.
SearchChoices == {<<"B", "A">>}

InitSearch == Opened(<<SUPPLIER, ARTICLE, NAME>>)

NextSearch ==
  \/ \E sel \in Paths : Ui_OpenerSearchPrice_on_add_table(sel)
  \/ \E name \in Names : \E choice \in SearchChoices :
       \E fs \in Files({dlg.file_input_line}) :
         /\ Bounded(MaxCatalog, fs, << <<name, dlg.file_input_line>> >>)
         /\ Ui_Add_table_dialog_on_add_table(name, choice, fs, 0)
  \/ \E requests \in TokenLists : on_search(requests)

SpecSearch == InitSearch /\ [][NextSearch]_vars

\* ---------------------------------------------------- relevancy search
\* ASCII letters compare without case in LIKE.
Lower(ch) == IF ch = "N" THEN "n" ELSE ch

\* s LIKE p for sequences of characters: % stands for any run of
\* characters, _ for any one character.
RECURSIVE LikeMatch(_, _)
LikeMatch(p, s) ==
  IF p = <<>> THEN s = <<>>
  ELSE IF Head(p) = "%"
  THEN \E k \in 0..Len(s) : LikeMatch(Tail(p), SubSeq(s, k + 1, Len(s)))
  ELSE /\ s # <<>>
       /\ Head(p) = "_" \/ Lower(Head(p)) = Lower(Head(s))
       /\ LikeMatch(Tail(p), Tail(s))

\* column LIKE '%' || request || '%': the request is bound as it was
\* given (the sanitized copy of line 131 is not used); NULL is like
\* nothing.
Like(value, request) ==
  /\ value # NULL
  /\ LikeMatch(<<"%">> \o Chars(request) \o <<"%">>, Chars(value))

\* request.strip() is empty.
Blank(request) == \A i \in 1..Len(Chars(request)) : Chars(request)[i] = " "

\* The relevancy_score of a row: one for every pair with a request that
\* is not blank and is LIKE-contained in the pair's column.
RelevancyScore(row, column_request_pairs) ==
  Cardinality({i \in 1..Len(column_request_pairs) :
                 /\ ~Blank(column_request_pairs[i][2])
                 /\ Like(row[column_request_pairs[i][1]], column_request_pairs[i][2])})

\* The first limit rows; "if limit:" adds no LIMIT clause for None or 0.
Limited(rows, limit) ==
  IF limit = None \/ limit = 0 THEN rows
  ELSE SubSeq(rows, 1, Min(limit, Len(rows)))

\* sort_table_by_relevancy: what the call may return.  It raises for a
\* table name that is not one bareword or names no table, and for a
\* column the table lacks.  With no request that is not blank it returns
\* the table's rows; else the rows scoring above score in an order of
\* non-increasing score (the order among equal scores is the engine's).
\* Its connection is closed after the scored query only: not when execute
\* raises, and not before the return of the unscored rows.
sort_table_by_relevancy(d, table_name, column_request_pairs, score, limit) ==
  LET used == {i \in 1..Len(column_request_pairs) :
                 ~Blank(column_request_pairs[i][2])}
  IN IF table_name # PRICE \/ table_name \notin DOMAIN d
     THEN {[raised |-> TRUE, rows |-> <<>>, unclosed |-> 1]}
     ELSE IF used = {}
     THEN {[raised |-> FALSE, rows |-> Limited(d[table_name].rows, limit),
            unclosed |-> 1]}
     ELSE IF \E i \in used :
               column_request_pairs[i][1] \notin Range(d[table_name].columns)
     THEN {[raised |-> TRUE, rows |-> <<>>, unclosed |-> 1]}
     ELSE
       LET rows == d[table_name].rows
           sc(k) == RelevancyScore(rows[k], column_request_pairs)
           kept == {k \in 1..Len(rows) : sc(k) > score}
           orders == {o \in [1..Cardinality(kept) -> kept] :
                        /\ \A a, b \in DOMAIN o : o[a] = o[b] => a = b
                        /\ \A a, b \in DOMAIN o : a < b => sc(o[a]) >= sc(o[b])}
       IN {[raised |-> FALSE,
            rows |-> Limited([a \in DOMAIN o |-> rows[o[a]]], limit),
            unclosed |-> 0] : o \in orders}

\* Direct calls of sort_table_by_relevancy and of get_table_data: one
\* call per run, on a database whose catalog earlier inserts have filled.
Requests == {" ", "nut", "n_t", "n%t", "Nu"}
Pairs == {<<c, r>> : c \in {SUPPLIER, ARTICLE}, r \in Requests}
PairLists == UNION {[1..n -> Pairs] : n \in 0..MaxPairs}
Scores == {-1, 0, 1}
RelevancyRows == {<<"acme", "Nut">>, <<"bolt", "nat">>}
RelevancySeeds == UNION {[1..n -> RelevancyRows] : n \in 0..MaxCatalog}

Relevancy(table_name, column_request_pairs, score, limit) ==
  /\ \E r \in sort_table_by_relevancy(db, table_name, column_request_pairs,
                                       score, limit) :
       last' = [op |-> "relevancy",
                end |-> IF r.raised THEN "raised" ELSE "done",
                ret |-> 0, rows |-> r.rows,
                call |-> [table_name |-> table_name,
                          column_request_pairs |-> column_request_pairs,
                          score |-> score, limit |-> limit],
                unclosed |-> r.unclosed]
  /\ UNCHANGED <<db, dlg, tableWidget>>

Select(table_name, limit) ==
  /\ LET r == get_table_data(db, table_name, limit)
     IN last' = [op |-> "select", end |-> IF r.ok THEN "done" ELSE "error",
                 ret |-> 0, rows |-> r.rows,
                 call |-> [table_name |-> table_name, limit |-> limit],
                 unclosed |-> 0]
  /\ UNCHANGED <<db, dlg, tableWidget>>

InitRelevancy ==
  \E seed \in RelevancySeeds :
    /\ db = insert_into_table(createPrice(<<SUPPLIER, ARTICLE>>), PRICE,
                              <<SUPPLIER, ARTICLE>>, seed, DefaultBatchSize, 0).db
    /\ dlg = Closed
    /\ tableWidget = <<>>
    /\ last = Last("open_db", "done")

NextRelevancy ==
  \/ \E table_name \in {PRICE, REGISTRY} : \E pairs \in PairLists :
       \E score \in Scores : \E limit \in {None} \cup 0..MaxCatalog :
         /\ last.op = "open_db"
         /\ Relevancy(table_name, pairs, score, limit)
  \/ \E table_name \in {PRICE, REGISTRY, "acme"} : \E limit \in {None} \cup 0..(MaxCatalog + 1) :
       /\ last.op = "open_db"
       /\ Select(table_name, limit)

SpecRelevancy == InitRelevancy /\ [][NextRelevancy]_vars

\* The create dialog.  The database file it names is db (NoFile before
\* the first creation); the dialog's folder line is file_input_line and
\* its grid the texts of its rows.
ColumnTexts == {"Tsena", NAME, "Nazvanie stolbtsa", "Tsena UNINDEXED"}
DbNames == {"", "price"}
Folders == {"C:/db"}

\* Menu entry "create database": the dialog with its two fixed rows.
on_create_db ==
  /\ ~dlg.open
  /\ dlg' = [open |-> TRUE, file_input_line |-> "",
             table |-> <<SUPPLIER, ARTICLE>>]
  /\ last' = Last("dialog", "done")
  /\ UNCHANGED <<db, tableWidget>>

\* The create dialog's folder button, the user picking folder.
Ui_Create_db_on_file_input(folder) ==
  /\ dlg.open
  /\ dlg.file_input_line # folder
  /\ dlg' = [dlg EXCEPT !.file_input_line = folder]
  /\ last' = Last("dialog", "done")
  /\ UNCHANGED <<db, tableWidget>>

\* The create dialog's add-column button; text is what the new row holds
\* once the user has edited it (the default text if not).
on_add_column(text) ==
  /\ dlg.open
  /\ Len(dlg.table) < 2 + MaxColumns
  /\ dlg' = [dlg EXCEPT !.table = Append(@, text)]
  /\ last' = Last("dialog", "done")
  /\ UNCHANGED <<db, tableWidget>>

\* The create dialog's Ok button: setupDB, createPrice, then on_open_db
\* shows the new catalog and the dialog closes; after a failure the
\* handler returns with the dialog open ("invalid": setupDB's warning of
\* a missing name or folder; "rejected": any other warning).
create_db(db_name, windows) ==
  /\ dlg.open
  /\ LET f == setupDB(db, db_name, dlg.file_input_line, windows)
         c == Ui_Create_db_createPrice(f.db, dlg.table)
     IN IF f.ok /\ c.ok
        THEN /\ db' = c.db
             /\ tableWidget' = get_table_data(c.db, PRICE, OpenLimit).rows
             /\ dlg' = Closed
             /\ last' = [Last("create_db", "done") EXCEPT !.unclosed = c.unclosed]
        ELSE /\ db' = IF f.ok THEN c.db ELSE f.db
             /\ last' = [Last("create_db",
                              IF db_name = "" \/ dlg.file_input_line = ""
                              THEN "invalid" ELSE "rejected")
                          EXCEPT !.unclosed = IF f.ok THEN c.unclosed ELSE 0]
             /\ UNCHANGED <<dlg, tableWidget>>

\* The database file before the dialog is used: none, or a database
\* with one supplier and one catalog row of it.
Filled ==
  LET r == insert_into_table(createPrice(<<SUPPLIER, ARTICLE>>), REGISTRY,
                             <<NAME, PATH>>, << <<"acme", "C:/acme.xlsx">> >>,
                             DefaultBatchSize, 0)
  IN insert_into_table(r.db, PRICE, <<SUPPLIER, ARTICLE>>,
                       << <<"acme", "nut">> >>, DefaultBatchSize, 0).db

InitCreate ==
  /\ db \in {NoFile, Filled}
  /\ dlg = Closed
  /\ tableWidget = <<>>
  /\ last = Last("start", "done")

NextCreate ==
  \/ on_create_db
  \/ \E folder \in Folders : Ui_Create_db_on_file_input(folder)
  \/ \E text \in ColumnTexts : on_add_column(text)
  \/ \E db_name \in DbNames : \E windows \in BOOLEAN : create_db(db_name, windows)
  \/ close

SpecCreate == InitCreate /\ [][NextCreate]_vars

\* -------------------------------------------------------------- claims
\* What the specification expects an ingestion of supplier name to store
\* for the spreadsheet rows: one catalog row per spreadsheet row, the
\* supplier's name in the first field, every mapped field taken from its
\* source column and every field mapped to the sentinel left NULL.
\* mapping takes each catalog field after the first to its combo setting.
ExpectedRows(name, mapping, rows) ==
  [i \in 1..Len(rows) |->
     [c \in Range(CatalogColumns) |->
        IF c = SUPPLIER THEN name
        ELSE IF mapping[c] = UNASSIGNED THEN NULL
        ELSE rows[i][mapping[c]]]]

\* The mapping the user set in a dialog whose file button was pressed once.
MappingOf(choice) ==
  [c \in Range(Tail(CatalogColumns)) |-> choice[IndexOf(CatalogColumns, c) - 1]]

NoFailure(n) == [k \in 1..n |-> 0]

\* C1: after an update that runs to its end without a storage failure,
\* the catalog holds for every registered supplier exactly as many rows as
\* the supplier's spreadsheet has now (full replace, never old + new).
C1_FullReplace ==
  [][\A fs \in Files(RegisteredPaths) :
       LET tables == RegistryTables(db)
       IN (on_update_price(fs, NoFailure(Len(tables))) /\ last'.end = "done")
          => \A k \in 1..Len(tables) :
               Len(PartitionRows(db'[PRICE].rows, tables[k][1]))
                 = Len(fs[tables[k][2]].rows)]_vars

\* The dialog's file button was pressed once: one grid row per field.
PressedOnce == Len(dlg.table) = Len(CatalogColumns) - 1

\* C2: the first ingestion of a supplier (no storage failure) leaves as
\* the supplier's catalog rows exactly the spreadsheet's rows projected by
\* the mapping and prefixed with the name, one per spreadsheet row.
C2_FirstIngest ==
  [][\A name \in Names : \A choice \in Choices(dlg) :
       \A fs \in Files({dlg.file_input_line}) :
         (/\ PressedOnce
          /\ name \notin DOMAIN db
          /\ Ui_Add_table_dialog_on_add_table(name, choice, fs, 0))
         => PartitionRows(db'[PRICE].rows, name)
              = ExpectedRows(name, MappingOf(choice), fs[dlg.file_input_line].rows)]_vars

\* C3: with a field mapped to the sentinel the ingestion still runs to its
\* end and stores every spreadsheet row, the sentinel's fields NULL.
C3_Unassigned ==
  [][\A name \in Names : \A choice \in Choices(dlg) :
       \A fs \in Files({dlg.file_input_line}) :
         (/\ PressedOnce
          /\ \E i \in 1..Len(choice) : choice[i] = UNASSIGNED
          /\ name \notin DOMAIN db
          /\ Ui_Add_table_dialog_on_add_table(name, choice, fs, 0))
         => /\ last'.end = "done"
            /\ PartitionRows(db'[PRICE].rows, name)
                 = ExpectedRows(name, MappingOf(choice),
                                fs[dlg.file_input_line].rows)]_vars

\* The mapping stored in a supplier's column-map table.
StoredMapping(d, name) ==
  [c \in {d[name].rows[i][MAP_DB] : i \in 1..Len(d[name].rows)} |->
     (CHOOSE r \in Range(d[name].rows) : r[MAP_DB] = c)[MAP_SRC]]

\* C4: an update in which the ingestion of a supplier fails (an exception,
\* or a storage failure in one of its insert batches) leaves the
\* supplier's catalog rows either as they were or as the complete new set.
C4_Atomic ==
  [][\A fs \in BatchFiles(RegisteredPaths) :
       \A fail \in [1..Len(db[REGISTRY].rows) -> 0..2] :
         on_update_price(fs, fail)
         => \A k \in 1..Len(db[REGISTRY].rows) :
              LET name == RegistryTables(db)[k][1]
                  path == RegistryTables(db)[k][2]
              IN (fail[k] # 0 \/ last'.end = "raised")
                 => PartitionRows(db'[PRICE].rows, name)
                      \in {PartitionRows(catalog, name),
                           ExpectedRows(name, StoredMapping(db, name),
                                        fs[path].rows)}]_vars

NameRegistered(name) ==
  \E i \in 1..Len(db[REGISTRY].rows) : db[REGISTRY].rows[i][NAME] = name

UniqueNames ==
  \A i, j \in 1..Len(db[REGISTRY].rows) :
    db[REGISTRY].rows[i][NAME] = db[REGISTRY].rows[j][NAME] => i = j

\* C5: confirming the dialog with a name that is already registered is
\* rejected and changes nothing in the database (registry, column maps
\* and catalog), and no two registry rows ever share a name.
C5_DuplicateName ==
  /\ []UniqueNames
  /\ [][last'.op = "add"
        => \A name \in Names : \A choice \in Choices(dlg) :
             \A fs \in Files({dlg.file_input_line}) : \A fail \in 0..1 :
               (NameRegistered(name)
                /\ Ui_Add_table_dialog_on_add_table(name, choice, fs, fail))
               => (last'.end = "rejected" /\ db' = db)]_vars

\* A registration under a registered name was just rejected.
C5_Witness ==
  /\ last.op = "add" /\ last.end = "rejected"
  /\ Len(db[REGISTRY].rows) = 1
  /\ Len(catalog) > 0

\* C6: confirming the dialog with a new name and a spreadsheet path that
\* is already registered leaves the database as it was.
C6_DuplicatePath ==
  [][\A name \in Names : \A choice \in Choices(dlg) :
       \A fs \in Files({dlg.file_input_line}) : \A fail \in 0..1 :
         (/\ name \notin DOMAIN db
          /\ dlg.file_input_line \in RegisteredPaths
          /\ Ui_Add_table_dialog_on_add_table(name, choice, fs, fail))
         => db' = db]_vars

\* The step is a direct call of insert_into_table.
Called == last'.op = "insert"

\* C7: insert_many with an empty row list, or with a column list whose
\* length differs from the first row's, returns 0 and changes no table.
C7_RejectedInput ==
  [][LET c == last'.call
     IN (Called /\ (c.values = <<>> \/ Len(c.columns) # Len(c.values[1])))
        => (db' = db /\ last'.ret = 0)]_vars

\* A call with mismatched lengths was just rejected on a filled catalog.
C7_Witness ==
  /\ last.op = "insert" /\ last.end = Mismatch /\ last.ret = 0
  /\ Len(last.call.values) > 1
  /\ Len(catalog) > 0

\* The batch holding row i of a call with the given batch size.
BatchOf(i, batch_size) == ((i - 1) \div batch_size) + 1

\* The first batch of a catalog insert that fails: the one the storage
\* failure hits or the first one with a row whose length is not the
\* column list's (binding error), whichever comes first; 0 if none does.
FailingBatch(c) ==
  LET bad == {BatchOf(i, c.batch_size) : i \in {j \in 1..Len(c.values) :
                                                  Len(c.values[j]) # Len(c.columns)}}
      hit == IF c.fail \in 1..BatchOf(Len(c.values), c.batch_size) THEN {c.fail} ELSE {}
  IN IF bad \cup hit = {} THEN 0
     ELSE CHOOSE k \in bad \cup hit : \A m \in bad \cup hit : k <= m

\* The catalog row a row of values is stored as.
StoredRow(columns, row) ==
  [f \in Range(CatalogColumns) |->
     IF f \in Range(columns) THEN row[IndexOf(columns, f)] ELSE NULL]

\* C8: when batch k of a catalog insert fails, the catalog holds after
\* the call its former rows followed by the rows of batches 1..k-1, and
\* no row of batch k or of a later batch.
C8_CommitPerBatch ==
  [][LET c == last'.call
     IN (/\ Called
         /\ c.table_name = PRICE
         /\ c.values # <<>> /\ Len(c.columns) = Len(c.values[1])
         /\ FailingBatch(c) # 0)
        => db'[PRICE].rows
             = catalog \o [i \in 1..((FailingBatch(c) - 1) * c.batch_size) |->
                             StoredRow(c.columns, c.values[i])]]_vars

\* A call failed in its third batch and its first two batches stayed.
C8_Witness ==
  /\ last.op = "insert" /\ last.end = DatabaseError
  /\ last.call.table_name = PRICE
  /\ FailingBatch(last.call) = 3
  /\ \E n \in 1..Len(catalog) :
       /\ n + 2 = Len(catalog)
       /\ SubSeq(catalog, n + 1, n + 2)
            = [i \in 1..2 |-> StoredRow(last.call.columns, last.call.values[i])]

\* C9: the value insert_many returns is the number of rows the call
\* added to its table, whatever the outcome of the call.
C9_ReturnCount ==
  [][Called
     => LET t == last'.call.table_name
        IN last'.ret = Len(db'[t].rows) - Len(db[t].rows)]_vars

\* C10: a search with no token at all, or one whose tokens (none of them
\* an operator keyword) match no catalog row, shows zero rows and no
\* error box.
C10_NothingFound ==
  [][\A requests \in TokenLists :
       (/\ \A i \in 1..Len(requests) : requests[i] \notin Fts5Keywords
        /\ \A i \in 1..Len(catalog) : ~MatchesRow(db[PRICE], catalog[i], requests)
        /\ on_search(requests))
       => (last'.end = "done" /\ tableWidget' = <<>>)]_vars

\* How often a row occurs in a sequence of rows.
Count(rows, row) == Cardinality({i \in 1..Len(rows) : rows[i] = row})

\* Token t, letter case aside, is a prefix of a word of a cell of the row.
Hit(row, t) ==
  \E f \in Range(CatalogColumns) : \E k \in 1..Len(Words(row[f])) :
    IsPrefix(Fold(t), Words(row[f])[k])

NoKeyword(requests) == \A i \in 1..Len(requests) : requests[i] \notin Fts5Keywords

C12_Escaped ==
  [][\A requests \in TokenLists :
       (~NoKeyword(requests) /\ on_search(requests))
       => /\ last'.end = "done"
          /\ \A row \in Range(catalog) :
               Count(tableWidget', row)
                 = IF \E i \in 1..Len(requests) : Hit(row, requests[i])
                   THEN Count(catalog, row) ELSE 0]_vars

\* The dialog names a database: a name is typed and a folder picked.
Named(db_name) == db_name # "" /\ dlg.file_input_line # ""

\* C13: creating the catalog of a new database with the dialog's rows,
\* no two of them equal, succeeds, and listing the catalog's columns
\* then returns the texts of the rows in their order.
C13_ListColumns ==
  [][\A db_name \in DbNames : \A windows \in BOOLEAN :
       (/\ db = NoFile
        /\ Named(db_name)
        /\ \A i, j \in 1..Len(dlg.table) : dlg.table[i] = dlg.table[j] => i = j
        /\ create_db(db_name, windows))
       => /\ last'.end = "done"
          /\ get_table_columns(db', PRICE) = dlg.table]_vars

\* C14: creation against a database that holds a catalog is rejected and
\* leaves every table of the database, rows included, as it was.
C14_CreateRejected ==
  [][\A db_name \in DbNames : \A windows \in BOOLEAN :
       (PRICE \in DOMAIN db /\ Named(db_name) /\ create_db(db_name, windows))
       => (last'.end = "rejected" /\ db' = db)]_vars

\* A creation was just rejected on a database whose catalog holds rows.
C14_Witness ==
  /\ last.op = "create_db" /\ last.end = "rejected"
  /\ PRICE \in DOMAIN db
  /\ Len(db[PRICE].rows) > 0 /\ Len(db[REGISTRY].rows) > 0

\* C15: the column map stored by a registration holds one row per
\* catalog field after the first, in the fields' order, with a source
\* column the user chose for that field, however often the file button
\* of the dialog was pressed.
C15_MappingPersisted ==
  [][last'.op = "add"
     => \A name \in Names : \A choice \in Choices(dlg) :
          \A fs \in Files({dlg.file_input_line}) : \A fail \in 0..1 :
            (/\ name \notin DOMAIN db
             /\ dlg.table # <<>>
             /\ Ui_Add_table_dialog_on_add_table(name, choice, fs, fail))
            => /\ Len(db'[name].rows) = Len(CatalogColumns) - 1
               /\ \A i \in 1..Len(db'[name].rows) :
                    /\ db'[name].rows[i][MAP_DB] = CatalogColumns[i + 1]
                    /\ \E j \in 1..Len(dlg.table) :
                         /\ dlg.table[j].column = CatalogColumns[i + 1]
                         /\ db'[name].rows[i][MAP_SRC] = choice[j]]_vars

\* The text sub occurs in the text value, character for character.
Contains(value, sub) ==
  /\ value # NULL
  /\ \E k \in 0..(Len(Chars(value)) - Len(Chars(sub))) :
       SubSeq(Chars(value), k + 1, k + Len(Chars(sub))) = Chars(sub)

\* The number of pairs with a request that is not blank and occurs in
\* the pair's column.
ContainmentScore(row, pairs) ==
  Cardinality({i \in 1..Len(pairs) :
                 ~Blank(pairs[i][2]) /\ Contains(row[pairs[i][1]], pairs[i][2])})

\* C16: a relevancy search of the catalog without a limit returns
\* exactly the rows in which more pairs than the threshold have their
\* request, character for character, in their column, the rows with
\* more such pairs first.
C16_Relevancy ==
  [][LET c == last'.call
         got == last'.rows
     IN (last'.op = "relevancy" /\ c.table_name = PRICE /\ c.limit = None)
        => /\ last'.end = "done"
           /\ Range(got) \subseteq Range(catalog)
           /\ \A row \in Range(catalog) :
                Count(got, row)
                  = IF ContainmentScore(row, c.column_request_pairs) > c.score
                    THEN Count(catalog, row) ELSE 0
           /\ \A a, b \in 1..Len(got) :
                a < b => ContainmentScore(got[a], c.column_request_pairs)
                           >= ContainmentScore(got[b], c.column_request_pairs)]_vars

\* C17: a select with the limit L on a table of n rows returns min(L, n)
\* rows, none for L = 0.
C17_Limit ==
  [][LET c == last'.call
     IN (last'.op = "select" /\ c.table_name \in DOMAIN db /\ c.limit >= 0)
        => Len(last'.rows) = Min(c.limit, Len(db[c.table_name].rows))]_vars

\* C18: no call leaves a connection it opened unclosed, whether it
\* returns or fails.
C18_AllClosed == last.unclosed = 0

\* C19: a registration of a new supplier (a name and a path that are not
\* registered) whose spreadsheet has a header and no data rows stores no
\* catalog row for the supplier, stores the supplier's registry row and
\* its column-map table, and leaves the catalog rows of every other
\* supplier as they were.
C19_EmptySheet ==
  [][last'.op = "add"
     => \A name \in Names : \A choice \in Choices(dlg) :
          \A fs \in Files({dlg.file_input_line}) :
            (/\ name \notin DOMAIN db
             /\ dlg.file_input_line \in DOMAIN fs
             /\ dlg.file_input_line \notin RegisteredPaths
             /\ fs[dlg.file_input_line].rows = <<>>
             /\ Ui_Add_table_dialog_on_add_table(name, choice, fs, 0))
            => /\ PartitionRows(db'[PRICE].rows, name) = <<>>
               /\ \E i \in 1..Len(db'[REGISTRY].rows) :
                    /\ db'[REGISTRY].rows[i][NAME] = name
                    /\ db'[REGISTRY].rows[i][PATH] = dlg.file_input_line
               /\ name \in DOMAIN db'
               /\ \A s \in Names \ {name} :
                    PartitionRows(db'[PRICE].rows, s)
                      = PartitionRows(catalog, s)]_vars

\* C20: every catalog row carries in its first field the name of a
\* registry row.
C20_Referential ==
  \A i \in 1..Len(catalog) :
    \E j \in 1..Len(db[REGISTRY].rows) :
      db[REGISTRY].rows[j][NAME] = catalog[i][SUPPLIER]

\* The column-map tables of the database: every table but the registry
\* and the catalog.
MapTables == DOMAIN db \ {REGISTRY, PRICE}

\* C21: a column-map table exists for a name exactly when the registry
\* has a row of that name, and every column-map table holds a mapping: one
\* row per catalog field after the first.
C21_InStep ==
  /\ \A name \in MapTables : NameRegistered(name)
  /\ \A i \in 1..Len(db[REGISTRY].rows) : db[REGISTRY].rows[i][NAME] \in MapTables
  /\ \A name \in MapTables : Len(db[name].rows) = Len(CatalogColumns) - 1

OthersKept(rows, name) ==
  \A s \in Names \ {name} :
    PartitionRows(rows, s) = PartitionRows(catalog, s)

\* C23: the ingestion of a supplier, at its registration or as one step
\* of an update, changes no catalog row of another supplier, whatever the
\* catalog's fields, its rows and the supplier's spreadsheet path are.
C23_OthersUnchanged ==
  /\ [][last'.op = "add"
        => \A name \in Names : \A choice \in Choices(dlg) :
             \A fs \in Files({dlg.file_input_line}) : \A fail \in 0..1 :
               Ui_Add_table_dialog_on_add_table(name, choice, fs, fail)
               => OthersKept(db'[PRICE].rows, name)]_vars
  /\ [](\A fs \in Files(RegisteredPaths) : \A fail \in 0..1 :
          \A k \in 1..Len(db[REGISTRY].rows) :
            LET table == RegistryTables(db)[k]
            IN OthersKept(UpdateOne(db, fs, table, fail).db[PRICE].rows, table[1]))

\* The request holds one of LIKE's wildcard characters.
Wild(request) ==
  \E i \in 1..Len(Chars(request)) : Chars(request)[i] \in {"%", "_"}

\* The score of a row when a request with % or _ counts only if the
\* column holds these very characters, and any other request as LIKE
\* counts it.
LiteralScore(row, pairs) ==
  Cardinality({i \in 1..Len(pairs) :
                 /\ ~Blank(pairs[i][2])
                 /\ IF Wild(pairs[i][2])
                    THEN Contains(row[pairs[i][1]], pairs[i][2])
                    ELSE Like(row[pairs[i][1]], pairs[i][2])})

\* C24: in a relevancy search with some request that is not blank, the
\* characters % and _ of a request stand for themselves: every row
\* returned scores above the threshold with such requests counted only
\* where the column holds them character for character.
C24_LiteralWildcards ==
  [][LET c == last'.call
     IN (/\ last'.op = "relevancy" /\ last'.end = "done"
         /\ \E i \in 1..Len(c.column_request_pairs) :
              ~Blank(c.column_request_pairs[i][2]))
        => \A k \in 1..Len(last'.rows) :
             LiteralScore(last'.rows[k], c.column_request_pairs) > c.score]_vars

====
